---- MODULE Spec2Model ----
(***************************************************************************)
(* Model of scripts/generate_eda_excel.py: the EDA workbook generator.     *)
(*                                                                         *)
(* State: the loaded dataset df, the global workbook wb (the sheets        *)
(* created so far, with the tables written into them), the position of     *)
(* main(), the exception leaving main() (if any) and the output file.      *)
(* One action per sheet_* function called by main(), plus the save step.   *)
(* quicksort is how the build's default sort (kind="quicksort", not        *)
(* stable) leaves equal keys: in input order or exchanged.                 *)
(* Spec runs main(); AnyOrderSpec calls the sheet functions in other       *)
(* orders.                                                                 *)
(*                                                                         *)
(* Numbers.  A float is a record [k, n, d]: k = "fin" with the exact       *)
(* rational n/d (d > 0, lowest terms), or k = "nan" / "inf".  A cell of a  *)
(* sheet is a record [t, v, s]: t = "num" with the integer v (a formatted  *)
(* number is held as its digits: "75.0%" is 750 in a one-decimal column),  *)
(* or t = "str" with the text s.                                           *)
(***************************************************************************)
EXTENDS Integers, Sequences, FiniteSets, TLC

VARIABLES df, wb, pc, exc, file, quicksort

vars == <<df, wb, pc, exc, file, quicksort>>

(***************************************************************************)
(* Bounds of the model.                                                    *)
(***************************************************************************)
\* Number of freely chosen rows put in front of the fixed rows of a dataset.
MaxRows == 3
\* Number of section calls that AnyOrderSpec may take out of main()'s order.
MaxOutOfOrder == 1

(***************************************************************************)
(* Floats and cells.                                                       *)
(***************************************************************************)
RECURSIVE GCD(_, _)
GCD(a, b) == IF b = 0 THEN a ELSE GCD(b, a % b)

Fin(n, d) == LET g == GCD(n, d) IN [k |-> "fin", n |-> n \div g, d |-> d \div g]
NaN == [k |-> "nan", n |-> 0, d |-> 1]
Inf == [k |-> "inf", n |-> 0, d |-> 1]
IsFin(x) == x.k = "fin"

Num(v) == [t |-> "num", v |-> v, s |-> ""]
Str(s) == [t |-> "str", v |-> 0, s |-> s]

\* A rate left as a fraction of 1.
TimesOne(x) == x

\* x * 100 on floats.
Times100(x) == IF IsFin(x) THEN Fin(x.n * 100, x.d) ELSE x

\* numpy float64 division: x/0 is inf (nan for 0/0), nan propagates.
FloatDiv(x, y) ==
    IF x.k = "nan" \/ y.k = "nan" THEN NaN
    ELSE IF x.k = "inf" THEN (IF y.k = "inf" THEN NaN ELSE Inf)
    ELSE IF y.k = "inf" THEN Fin(0, 1)
    ELSE IF y.n = 0 THEN (IF x.n = 0 THEN NaN ELSE Inf)
    ELSE Fin(x.n * y.d, x.d * y.n)

\* x > 0 on floats: False for nan.
GtZero(x) == x.k = "inf" \/ (x.k = "fin" /\ x.n > 0)

\* Python truthiness of a float: only 0.0 is falsy (nan is truthy).
Truthy(x) == ~(x.k = "fin" /\ x.n = 0)

\* x > p/q on floats, p/q a threshold: False for nan.
GtRat(x, p, q) == x.k = "inf" \/ (x.k = "fin" /\ x.n * q > p * x.d)

\* n/d rounded to the nearest integer, ties to even (n >= 0, d > 0).
RoundHalfEven(n, d) ==
    LET q == n \div d
        r == n % d
    IN  IF 2 * r < d THEN q
        ELSE IF 2 * r > d THEN q + 1
        ELSE IF q % 2 = 0 THEN q ELSE q + 1

Pow10(dp) == IF dp = 0 THEN 1 ELSE IF dp = 1 THEN 10 ELSE IF dp = 2 THEN 100
             ELSE IF dp = 3 THEN 1000 ELSE 10000

\* f"{x:.<dp>f}" and round(x, dp): the digits of x at dp decimals, or the
\* text Python prints for a float that is not finite.
Fmt(x, dp) ==
    IF x.k = "nan" THEN Str("nan")
    ELSE IF x.k = "inf" THEN Str("inf")
    ELSE Num(RoundHalfEven(x.n * Pow10(dp), x.d))

(***************************************************************************)
(* Sequences.                                                              *)
(***************************************************************************)
RECURSIVE SumSeq(_)
SumSeq(s) == IF s = <<>> THEN 0 ELSE Head(s) + SumSeq(Tail(s))

RECURSIVE SelectIdx(_, _, _)
\* The indices i of 1..n, ascending from i0, with Keep[i].
SelectIdx(i0, n, Keep) ==
    IF i0 > n THEN <<>>
    ELSE IF Keep[i0] THEN <<i0>> \o SelectIdx(i0 + 1, n, Keep)
    ELSE SelectIdx(i0 + 1, n, Keep)

\* The elements of s at the indices idx, in the order of idx.
Pick(s, idx) == [j \in 1..Len(idx) |-> s[idx[j]]]

\* The elements of s with Keep, in the order of s.
Filter(s, Keep(_)) == Pick(s, SelectIdx(1, Len(s), [i \in 1..Len(s) |-> Keep(s[i])]))

Reverse(s) == [i \in 1..Len(s) |-> s[Len(s) + 1 - i]]

Range(s) == {s[i] : i \in 1..Len(s)}

\* Series.mean(): nan for an empty selection.
Mean(s) == IF Len(s) = 0 THEN NaN ELSE Fin(SumSeq(s), Len(s))

RECURSIVE UniqueFrom(_, _, _)
UniqueFrom(s, i, seen) ==
    IF i > Len(s) THEN seen
    ELSE UniqueFrom(s, i + 1, IF s[i] \in Range(seen) THEN seen ELSE Append(seen, s[i]))

\* Series.unique(): the distinct values in order of first appearance.
Unique(s) == UniqueFrom(s, 1, <<>>)

\* x > y on finite floats, and on integers.
FloatGt(x, y) == x.n * y.d > y.n * x.d
IntGt(a, b) == a > b

\* The place of every key in the descending order of the keys; equal keys
\* keep their input order when tiesKept, and come out exchanged otherwise.
PlaceDesc(keys, Gt(_, _), tiesKept) ==
    [i \in 1..Len(keys) |->
        1 + Cardinality({j \in 1..Len(keys) :
                \/ Gt(keys[j], keys[i])
                \/ keys[j] = keys[i] /\ (IF tiesKept THEN j < i ELSE j > i)})]

InvertPlaces(place) == [p \in 1..Len(place) |-> CHOOSE i \in 1..Len(place) : place[i] = p]

OrderDesc(keys, Gt(_, _), tiesKept) == InvertPlaces(PlaceDesc(keys, Gt, tiesKept))

\* The sequence of F(e) for the elements e of s.
MapSeq(s, F(_)) == [i \in 1..Len(s) |-> F(s[i])]

\* sort_values(ascending=False) with pandas' default kind="quicksort", which
\* is not a stable sort: the order of equal keys is the build's.
SortValuesDesc(rows, Key(_), Gt(_, _), qs) ==
    Pick(rows, OrderDesc(MapSeq(rows, Key), Gt, qs = "kept"))

\* list.sort(key=..., reverse=True): stable.
ListSortDesc(rows, Key(_), Gt(_, _)) ==
    Pick(rows, OrderDesc(MapSeq(rows, Key), Gt, TRUE))

\* A sequence of integers in ascending order.
SortAsc(s) == Reverse(Pick(s, OrderDesc(s, IntGt, TRUE)))

\* round(x, dp) on a float.
Round(x, dp) ==
    IF IsFin(x) THEN Fin(RoundHalfEven(x.n * Pow10(dp), x.d), Pow10(dp)) ELSE x

(***************************************************************************)
(* The dataset: df.columns and the null markers.                           *)
(***************************************************************************)
Columns ==
    << "beneficiary_type", "amount", "channel", "fraud_type", "label",
       "hour", "is_night", "rule_large_cash_deposit", "rule_high_value_transfer",
       "rule_micro_transaction", "rule_night_transaction", "rule_crypto_transfer",
       "rule_atm_high_withdrawal", "rule_trigger_count", "max_rule_severity",
       "weighted_rule_score", "devices_per_account", "merchant_risk" >>

NumericColumns ==
    { "amount", "label", "hour", "is_night", "rule_large_cash_deposit",
      "rule_high_value_transfer", "rule_micro_transaction", "rule_night_transaction",
      "rule_crypto_transfer", "rule_atm_high_withdrawal", "rule_trigger_count",
      "max_rule_severity", "weighted_rule_score", "devices_per_account",
      "merchant_risk" }

\* A missing value: NaN in a numeric column, None in an object column.
NullNum == 0 - 1
NullStr == "<NA>"

IsNull(row, c) == IF c \in NumericColumns THEN row[c] = NullNum ELSE row[c] = NullStr

\* The amount from which a transfer counts as of high value, in the unit of
\* the amounts of the records below.
HighValue == 20

\* One record with its rule flags given.  The derived columns follow the
\* derivations the catalog states for them; merchant_risk is a column the
\* catalog has no entry for.
RowOf(ben, amount, channel, ft, hour, cash, dev, night, high, micro, crypto, atm) ==
    [ beneficiary_type         |-> ben,
      amount                   |-> amount,
      channel                  |-> channel,
      fraud_type               |-> ft,
      label                    |-> IF ft = "normal" THEN 0 ELSE 1,
      hour                     |-> hour,
      is_night                 |-> night,
      rule_large_cash_deposit  |-> cash,
      rule_high_value_transfer |-> high,
      rule_micro_transaction   |-> micro,
      rule_night_transaction   |-> night,
      rule_crypto_transfer     |-> crypto,
      rule_atm_high_withdrawal |-> atm,
      rule_trigger_count       |-> cash + high + micro + night + crypto + atm,
      max_rule_severity        |-> IF cash = 1 THEN 2
                                   ELSE IF high + micro + night + crypto + atm > 0 THEN 1 ELSE 0,
      weighted_rule_score      |-> 2 * cash + high + micro + night + crypto + atm,
      devices_per_account      |-> dev,
      merchant_risk            |-> IF ben = "crypto" \/ channel = "atm" THEN 1 ELSE 0 ]

\* One record of the dataset.
Row(ben, amount, channel, ft, hour, cash, dev) ==
    RowOf(ben, amount, channel, ft, hour, cash, dev,
          IF hour \in {22, 23, 0, 1, 2, 3, 4, 5} THEN 1 ELSE 0,
          IF amount >= HighValue /\ cash = 0 THEN 1 ELSE 0,
          IF amount < 10 THEN 1 ELSE 0,
          IF ben = "crypto" THEN 1 ELSE 0,
          IF channel = "atm" /\ amount >= HighValue THEN 1 ELSE 0)

\* The records a dataset's free rows are drawn from.
RowPool ==
    { Row("individual", 0,  "web",   "normal",   7, 0, 0),
      Row(NullStr,      10, "atm",   "normal",   3, 1, 2),
      Row("individual", 20, "web",   "ATO",      3, 1, 2),
      Row(NullStr,      20, "atm",   "ATO",      7, 0, NullNum),
      Row("crypto",     10, "web",   "smurfing", 2, 0, 1),
      Row("individual", 10, NullStr, "layering", 7, 0, 1) }

\* One record of every fraud_type value.
AllTypesRows ==
    << Row("individual", 0,  "web", "normal",         7, 0, 0),
       Row("crypto",     10, "atm", "mule_ring",      3, 1, 2),
       Row(NullStr,      20, "web", "layering",       7, 0, 1),
       Row("individual", 10, "atm", "smurfing",       7, 1, 1),
       Row("individual", 20, "web", "ATO",            2, 0, 2),
       Row("individual", 10, "web", "identity_fraud", 7, 0, NullNum) >>

\* One record of every fraud_type value, none of which triggers
\* rule_large_cash_deposit.
UntriggeredRows ==
    << Row("individual", 0,  "web", "normal",         7, 0, 0),
       Row("crypto",     10, "atm", "mule_ring",      3, 0, 2),
       Row(NullStr,      20, "web", "layering",       7, 0, 1),
       Row("individual", 10, "atm", "smurfing",       7, 0, 1),
       Row("individual", 20, "web", "ATO",            2, 0, 2),
       Row("individual", 10, "web", "identity_fraud", 7, 0, 1) >>

Rep(row, n) == [i \in 1..n |-> row]

\* Ten records of one channel, six of them fraud; rule_large_cash_deposit is
\* triggered on four, three of them fraud.
ExampleRows ==
    Rep(Row("individual", 10, "web", "ATO",    7, 1, 1), 3)
      \o Rep(Row("individual", 10, "web", "normal", 7, 1, 1), 1)
      \o Rep(Row("individual", 10, "web", "ATO",    7, 0, 1), 3)
      \o Rep(Row("individual", 10, "web", "normal", 7, 0, 1), 3)

\* Twenty records: rule_large_cash_deposit is triggered on all of them with
\* 3 fraud (15%), rule_night_transaction on ten of them with 3 fraud (30%).
ThresholdRows ==
    Rep(Row("individual", 10, "web", "ATO",    3, 1, 1), 3)
      \o Rep(Row("individual", 10, "web", "normal", 3, 1, 1), 7)
      \o Rep(Row("individual", 10, "web", "normal", 7, 1, 1), 10)

\* n fraud records with the given value of rule_large_cash_deposit, their
\* fraud types taken in turn from the position first on.
FraudRows(n, first, cash) ==
    [i \in 1..n |->
        Row("individual", 10, "web",
            <<"mule_ring", "layering", "smurfing", "ATO", "identity_fraud">>[((first + i - 2) % 5) + 1],
            7, cash, 1)]

\* Records of every fraud type in which only rule_large_cash_deposit and
\* label vary: a fraud and b normal records with the rule triggered, c fraud
\* and d normal records without.
CashByLabelRows(a, b, c, d) ==
    FraudRows(a, 1, 1)
      \o Rep(Row("individual", 10, "web", "normal", 7, 1, 1), b)
      \o FraudRows(c, a + 1, 0)
      \o Rep(Row("individual", 10, "web", "normal", 7, 0, 1), d)

\* Datasets whose correlation of rule_large_cash_deposit with label is
\* 0.3, 0.15 and 0.05.
OnThresholdDatasets ==
    {CashByLabelRows(1, 1, 4, 1), CashByLabelRows(2, 3, 3, 9), CashByLabelRows(3, 1, 7, 3)}

SeqsUpTo(S, n) == UNION {[1..m -> S] : m \in 0..n}

\* The datasets read_parquet may return: up to MaxRows free rows, alone or
\* followed by one record of every fraud type; the fixed datasets.
Datasets ==
    {s \o t : s \in SeqsUpTo(RowPool, MaxRows),
              t \in {<<>>, AllTypesRows, UntriggeredRows}}
        \cup {ExampleRows, ThresholdRows} \cup OnThresholdDatasets

\* The values of an object column in ascending (lexicographic) order, the
\* order groupby(sort=True) and mode() list them in.
SortedValues(c) ==
    IF c = "channel" THEN <<"atm", "web">>
    ELSE IF c = "fraud_type"
         THEN <<"ATO", "identity_fraud", "layering", "mule_ring", "normal", "smurfing">>
    ELSE IF c = "beneficiary_type" THEN <<"crypto", "individual">>
    ELSE <<>>

\* A column of d as a sequence, and the rows of d selected by a mask.
Col(d, c) == [i \in 1..Len(d) |-> d[i][c]]
Where(d, Keep(_)) == Filter(d, Keep)

\* Series.dropna() of a column, and isnull().sum().
NonNull(d, c) == Col(Where(d, LAMBDA r : ~IsNull(r, c)), c)
NullCount(d, c) == Cardinality({i \in 1..Len(d) : IsNull(d[i], c)})

\* The result of a sheet_* call: the workbook and the dataset after it, and
\* whether an exception left the function.
Result(w, d, raised) == [wb |-> w, df |-> d, raised |-> raised]

\* wb.create_sheet(title), with what the function wrote into the sheet.
CreateSheet(w, title, tables) == Append(w, [title |-> title, tables |-> tables])

\* The keys of groupby(c): the values of c that occur, ascending; with
\* dropna the null key is left out, otherwise it comes last.
\* groupby with its default dropna=True: the null key is always left out.
GroupKeysInDropped(present, domain, null, dropna) ==
    Filter(domain, LAMBDA v : v \in present)

GroupKeysIn(present, domain, null, dropna) ==
    IF ~dropna /\ null \in present
    THEN Append(Filter(domain, LAMBDA v : v \in present), null)
    ELSE Filter(domain, LAMBDA v : v \in present)

GroupKeys(d, c, dropna) ==
    IF c \in NumericColumns
    THEN GroupKeysIn(Range(Col(d, c)), SortAsc(Unique(NonNull(d, c))), NullNum, dropna)
    ELSE GroupKeysIn(Range(Col(d, c)), SortedValues(c), NullStr, dropna)

\* agg(["count","sum","mean"]) of the labels of one group.
GroupAgg(v, labels) ==
    [value |-> v, total |-> Len(labels), fraud |-> SumSeq(labels), mean |-> Mean(labels)]

GroupRows(d, c, keys) ==
    [j \in 1..Len(keys) |->
        GroupAgg(keys[j], Col(Where(d, LAMBDA r : r[c] = keys[j]), "label"))]

\* groupby(c)["label"].agg(["count","sum","mean"]).reset_index()
GroupByLabel(d, c, dropna) == GroupRows(d, c, GroupKeys(d, c, dropna))

(***************************************************************************)
(* Sheet 1: sheet_overview.                                                *)
(***************************************************************************)
\* The key metrics block.
OverviewMetrics(d) ==
    << [name |-> "Total Transactions",           cell |-> Num(Len(d))],
       [name |-> "Total Columns / Features",     cell |-> Num(Len(Columns))],
       [name |-> "Fraud Transactions (label=1)", cell |-> Num(SumSeq(Col(d, "label")))],
       [name |-> "Legitimate (label=0)",
        cell |-> Num(Len(Where(d, LAMBDA r : r.label = 0)))],
       [name |-> "Overall Fraud Rate",
        cell |-> Fmt(Times100(Mean(Col(d, "label"))), 2)],
       [name |-> "Columns with Nulls",
        cell |-> Num(Cardinality({i \in 1..Len(Columns) : NullCount(d, Columns[i]) > 0}))],
       [name |-> "Total Missing Cells",
        cell |-> Num(SumSeq([i \in 1..Len(Columns) |-> NullCount(d, Columns[i])]))] >>

\* value_counts(): the values are counted in order of first appearance and
\* the counts sorted descending.
ValueCounts(values, qs) ==
    SortValuesDesc(MapSeq(Unique(values),
                          LAMBDA v : [value |-> v,
                                      count |-> Len(Filter(values, LAMBDA x : x = v))]),
                   LAMBDA r : r.count, IntGt, qs)

\* One row of the fraud type distribution.
FraudTypeRow(vc, n, labels) ==
    [ fraud_type |-> vc.value,
      count      |-> Num(vc.count),
      pct_all    |-> Fmt(Fin(vc.count * 100, n), 2),
      fraud_rate |-> Fmt(Times100(Round(Mean(labels), 4)), 1) ]

OverviewFraudTypes(d, qs) ==
    MapSeq(ValueCounts(Col(d, "fraud_type"), qs),
           LAMBDA vc : FraudTypeRow(vc, Len(d),
                           Col(Where(d, LAMBDA r : r.fraud_type = vc.value), "label")))

\* The channel distribution of the fraud records alone.
OverviewChannelsOfFraud(d) ==
    MapSeq(GroupByLabel(Where(d, LAMBDA r : r.label = 1), "channel", TRUE),
           LAMBDA g : [ channel     |-> g.value,
                        total       |-> Num(g.total),
                        fraud_count |-> Num(g.fraud),
                        fraud_rate  |-> Fmt(Round(Times100(g.mean), 2), 2) ])

\* The channel distribution.
OverviewChannels(d) ==
    MapSeq(GroupByLabel(d, "channel", TRUE),
           LAMBDA g : [ channel     |-> g.value,
                        total       |-> Num(g.total),
                        fraud_count |-> Num(g.fraud),
                        fraud_rate  |-> Fmt(Round(Times100(g.mean), 2), 2) ])

\* ", ".join(df['channel'].unique()) raises TypeError when a channel is null:
\* the metrics list is built before anything is written.
sheet_overview(w, d, qs) ==
    IF \E i \in 1..Len(d) : IsNull(d[i], "channel")
    THEN Result(CreateSheet(w, "1_Overview",
                    [metrics |-> <<>>, channels |-> <<>>, ft |-> <<>>, ch |-> <<>>]),
                d, TRUE)
    ELSE Result(CreateSheet(w, "1_Overview",
                    [ metrics  |-> OverviewMetrics(d),
                      channels |-> Unique(Col(d, "channel")),
                      ft       |-> OverviewFraudTypes(d, qs),
                      ch       |-> OverviewChannels(d) ]),
                d, FALSE)

(***************************************************************************)
(* Sheet 2: DATA_DICT and sheet_data_dict.                                 *)
(***************************************************************************)
\* The catalog's (data type, feature group) of the dataset's columns; the
\* definition and formula texts are not carried.
DATA_DICT ==
    [ beneficiary_type        |-> <<"category", "Beneficiary">>,
      amount                  |-> <<"float",    "Transaction Base">>,
      channel                 |-> <<"category", "Transaction Base">>,
      fraud_type              |-> <<"category", "Labels">>,
      label                   |-> <<"binary",   "Labels">>,
      hour                    |-> <<"int",      "Temporal">>,
      is_night                |-> <<"binary",   "Temporal">>,
      rule_large_cash_deposit |-> <<"binary",   "Rule Flags">>,
      rule_high_value_transfer |-> <<"binary",  "Rule Flags">>,
      rule_micro_transaction  |-> <<"binary",   "Rule Flags">>,
      rule_night_transaction  |-> <<"binary",   "Rule Flags">>,
      rule_crypto_transfer    |-> <<"binary",   "Rule Flags">>,
      rule_atm_high_withdrawal |-> <<"binary",  "Rule Flags">>,
      rule_trigger_count      |-> <<"int",      "Rule Aggregates">>,
      max_rule_severity       |-> <<"int",      "Rule Aggregates">>,
      weighted_rule_score     |-> <<"int",      "Rule Aggregates">>,
      devices_per_account     |-> <<"int",      "Graph - Device">> ]

\* str(df[c].dtype).
Dtype(c) ==
    IF c \notin NumericColumns THEN "object"
    ELSE IF c \in {"amount", "devices_per_account"} THEN "float64"
    ELSE "int64"

\* DATA_DICT.get(c, ("","","",""))[1].
GroupOf(c) == IF c \in DOMAIN DATA_DICT THEN DATA_DICT[c][2] ELSE ""

\* The lookup with the empty default, DATA_DICT.get(c, ("","","","")), in place
\* of the fallback.
DataDictRowGet(c) ==
    IF c \in DOMAIN DATA_DICT
    THEN [column |-> c, dtype |-> DATA_DICT[c][1], group |-> DATA_DICT[c][2],
          catalogued |-> TRUE]
    ELSE [column |-> c, dtype |-> "", group |-> "", catalogued |-> FALSE]

\* One row of the dictionary; catalogued tells whether the definition and
\* formula texts are the catalog's or empty.
DataDictRow(c) ==
    IF c \in DOMAIN DATA_DICT
    THEN [column |-> c, dtype |-> DATA_DICT[c][1], group |-> DATA_DICT[c][2],
          catalogued |-> TRUE]
    ELSE [column |-> c, dtype |-> Dtype(c), group |-> "Other", catalogued |-> FALSE]

sheet_data_dict(w, d) ==
    Result(CreateSheet(w, "2_Data_Dictionary", [rows |-> MapSeq(Columns, DataDictRow)]),
           d, FALSE)

(***************************************************************************)
(* Sheet 3: sheet_formulas writes the static FORMULAS list.                *)
(***************************************************************************)
NumFormulas == 23

\* A sheet_formulas that counts on from the sheets already in the workbook.
sheet_formulas_shared(w, d) ==
    Result(CreateSheet(w, "3_Feature_Formulas", [rows |-> NumFormulas + Len(w)]), d, FALSE)

sheet_formulas(w, d) ==
    Result(CreateSheet(w, "3_Feature_Formulas", [rows |-> NumFormulas]), d, FALSE)

(***************************************************************************)
(* Sheet 4: sheet_desc_stats.                                              *)
(***************************************************************************)
\* The numeric columns in dataset order, without the excluded ones.
NumericCols(excluded) ==
    Filter(Columns, LAMBDA c : c \in NumericColumns /\ c \notin excluded)

\* An interpolation with the weights of the two order statistics exchanged.
PercentileAtReversed(a, lo, rem) ==
    IF rem = 0 THEN Fin(a[lo + 1], 1)
    ELSE Fin(a[lo + 1] * 100 + (100 - rem) * (a[lo + 2] - a[lo + 1]), 100)

\* The p-th percentile of the ascending values a, by linear interpolation
\* between order statistics.
PercentileAt(a, lo, rem) ==
    IF rem = 0 THEN Fin(a[lo + 1], 1)
    ELSE Fin(a[lo + 1] * 100 + rem * (a[lo + 2] - a[lo + 1]), 100)

Percentile(a, p) ==
    IF Len(a) = 0 THEN NaN
    ELSE PercentileAt(a, ((Len(a) - 1) * p) \div 100, ((Len(a) - 1) * p) % 100)

\* A minimum that is 0 when there is no value.
MinOfOrZero(a) == IF Len(a) = 0 THEN Fin(0, 1) ELSE Fin(a[1], 1)

MinOf(a) == IF Len(a) = 0 THEN NaN ELSE Fin(a[1], 1)
MaxOf(a) == IF Len(a) = 0 THEN NaN ELSE Fin(a[Len(a)], 1)

\* null_count / len(df) * 100 on floats: 0/0 is nan.
NullPct(d, c) == IF Len(d) = 0 THEN NaN ELSE Fin(NullCount(d, c) * 100, Len(d))

\* One row of describe(percentiles=[.25,.5,.75,.90,.95,.99]).T.round(4) with
\* the null count and percentage; a holds the non-null values ascending.  The
\* std column is not carried.
DescStatsOf(c, a, null_count, null_pct) ==
    [ feature    |-> c,
      count      |-> Num(Len(a)),
      mean       |-> Fmt(Mean(a), 4),
      min        |-> Fmt(MinOf(a), 4),
      p25        |-> Fmt(Percentile(a, 25), 4),
      p50        |-> Fmt(Percentile(a, 50), 4),
      p75        |-> Fmt(Percentile(a, 75), 4),
      p90        |-> Fmt(Percentile(a, 90), 4),
      p95        |-> Fmt(Percentile(a, 95), 4),
      p99        |-> Fmt(Percentile(a, 99), 4),
      max        |-> Fmt(MaxOf(a), 4),
      null_count |-> Num(null_count),
      null_pct   |-> Fmt(null_pct, 2) ]

DescStatsRow(d, c) == DescStatsOf(c, SortAsc(NonNull(d, c)), NullCount(d, c), NullPct(d, c))

sheet_desc_stats(w, d) ==
    Result(CreateSheet(w, "4_Descriptive_Stats",
             [rows |-> MapSeq(NumericCols({"account_id_x", "account_id_y"}),
                              LAMBDA c : DescStatsRow(d, c))]),
           d, FALSE)

(***************************************************************************)
(* Sheet 5: sheet_missing.                                                 *)
(***************************************************************************)
\* The columns with a note in notes_map.
NotesMap(c) ==
    IF c \in {"receiver_account_id", "beneficiary_id", "beneficiary_type",
              "beneficiary_country_risk", "account_id_x", "sender_in_degree_30d",
              "sender_total_inflow_30d", "account_id_y", "avg_time_gap_in_out"}
    THEN "noted" ELSE ""

\* A nulls frame that leaves out the columns without nulls.
MissingFrameNonZero(d) ==
    Filter(MapSeq(Columns,
                  LAMBDA c : [ column     |-> c,
                               null_count |-> NullCount(d, c),
                               null_pct   |-> Round(NullPct(d, c), 2),
                               dtype      |-> Dtype(c),
                               group      |-> GroupOf(c) ]),
           LAMBDA r : r.null_count # 0)

\* The nulls frame before the sort: one row per column of df.
MissingFrame(d) ==
    MapSeq(Columns,
           LAMBDA c : [ column     |-> c,
                        null_count |-> NullCount(d, c),
                        null_pct   |-> Round(NullPct(d, c), 2),
                        dtype      |-> Dtype(c),
                        group      |-> GroupOf(c) ])

\* nulls.sort_values("null_count", ascending=False)
MissingSorted(nulls, qs) == SortValuesDesc(nulls, LAMBDA r : r.null_count, IntGt, qs)

\* One sheet row per row of nulls.
MissingRows(d, qs) ==
    MapSeq(MissingSorted(MissingFrame(d), qs),
           LAMBDA r : [ column     |-> r.column,
                        dtype      |-> r.dtype,
                        null_count |-> Num(r.null_count),
                        null_pct   |-> Fmt(r.null_pct, 2),
                        group      |-> r.group,
                        note       |-> NotesMap(r.column) ])

\* A sheet_missing that sorts the rows of df itself.
sheet_missing_inplace(w, d, qs) ==
    Result(CreateSheet(w, "5_Missing_Values", [rows |-> MissingRows(d, qs)]),
           Reverse(d), FALSE)

sheet_missing(w, d, qs) ==
    Result(CreateSheet(w, "5_Missing_Values", [rows |-> MissingRows(d, qs)]), d, FALSE)

(***************************************************************************)
(* Sheet 6: sheet_graph_eda.                                               *)
(***************************************************************************)
\* The columns of graph_cols the dataset carries.
graph_cols == <<"devices_per_account">>

\* Section 1: descriptive statistics of a graph column; a holds the
\* non-null values ascending.
GraphStatsOf(c, a, null_pct) ==
    [ feature  |-> c,
      count    |-> Num(Len(a)),
      mean     |-> Fmt(Mean(a), 4),
      min      |-> Fmt(MinOf(a), 4),
      p25      |-> Fmt(Percentile(a, 25), 4),
      median   |-> Fmt(Percentile(a, 50), 4),
      p75      |-> Fmt(Percentile(a, 75), 4),
      p90      |-> Fmt(Percentile(a, 90), 4),
      p99      |-> Fmt(Percentile(a, 99), 4),
      max      |-> Fmt(MaxOf(a), 4),
      null_pct |-> Fmt(null_pct, 1) ]

\* ratio = round(fraud_m/legit_m, 2) if legit_m else float("nan")
GraphRatio(fraud_m, legit_m) ==
    IF Truthy(legit_m) THEN Round(FloatDiv(fraud_m, legit_m), 2) ELSE NaN

\* Section 2: fraud vs legitimate mean of a graph column.
GraphCompareOf(c, legit_m, fraud_m) ==
    [ feature |-> c,
      legit   |-> Fmt(legit_m, 4),
      fraud   |-> Fmt(fraud_m, 4),
      ratio   |-> Fmt(GraphRatio(fraud_m, legit_m), 2) ]

GraphCompareRow(d, c) ==
    GraphCompareOf(c,
        Mean(Col(Where(d, LAMBDA r : ~IsNull(r, c) /\ r.label = 0), c)),
        Mean(Col(Where(d, LAMBDA r : ~IsNull(r, c) /\ r.label = 1), c)))

sheet_graph_eda(w, d) ==
    Result(CreateSheet(w, "6_Graph_Features_EDA",
             [ stats   |-> MapSeq(graph_cols,
                               LAMBDA c : GraphStatsOf(c, SortAsc(NonNull(d, c)), NullPct(d, c))),
               compare |-> MapSeq(Filter(graph_cols, LAMBDA c : Len(NonNull(d, c)) # 0),
                               LAMBDA c : GraphCompareRow(d, c)) ]),
           d, FALSE)

(***************************************************************************)
(* Sheet 7: sheet_categoricals.                                            *)
(***************************************************************************)
cat_cols ==
    << "channel", "transaction_type", "kyc_level", "country_risk", "income_bracket",
       "customer_risk_rating", "occupation", "account_type", "os_type",
       "beneficiary_type", "beneficiary_country_risk", "debit_credit" >>

\* The table of one categorical column.
CategoricalTable(d, c, qs) ==
    MapSeq(SortValuesDesc(GroupByLabel(d, c, FALSE), LAMBDA r : r.total, IntGt, qs),
           LAMBDA g : [ value      |-> g.value,
                        total      |-> Num(g.total),
                        pct_all    |-> Fmt(Fin(g.total * 100, Len(d)), 2),
                        fraud      |-> Num(g.fraud),
                        fraud_rate |-> Fmt(Times100(g.mean), 1),
                        flagged    |-> GtRat(g.mean, 4, 10) ])

\* A loop without the test of line 784: the grouping by the first listed
\* column that the dataset lacks raises KeyError.
sheet_categoricals_unguarded(w, d, qs) ==
    Result(CreateSheet(w, "7_Categorical_Distributions",
             [tables |-> <<[column |-> cat_cols[1], rows |-> CategoricalTable(d, cat_cols[1], qs)]>>]),
           d, TRUE)

sheet_categoricals(w, d, qs) ==
    Result(CreateSheet(w, "7_Categorical_Distributions",
             [tables |-> MapSeq(Filter(cat_cols, LAMBDA c : c \in Range(Columns)),
                             LAMBDA c : [column |-> c, rows |-> CategoricalTable(d, c, qs)])]),
           d, FALSE)

(***************************************************************************)
(* Sheet 8: sheet_rules.                                                   *)
(***************************************************************************)
\* The columns whose name starts with "rule_".
RulePrefixed ==
    { "rule_large_cash_deposit", "rule_high_value_transfer", "rule_micro_transaction",
      "rule_night_transaction", "rule_crypto_transfer", "rule_atm_high_withdrawal",
      "rule_trigger_count" }

\* The columns that start with "rule_", the trigger count among them.
rule_cols_unfiltered == Filter(Columns, LAMBDA c : c \in RulePrefixed)

\* [c for c in df.columns if c.startswith("rule_") and c not in ["rule_trigger_count"]]
rule_cols == Filter(Columns, LAMBDA c : c \in RulePrefixed /\ c \notin {"rule_trigger_count"})

\* The division without its guard.
LiftUnguarded(f_triggered, f_not_triggered) == FloatDiv(f_triggered, f_not_triggered)

\* lift = f_triggered / f_not_triggered if f_not_triggered > 0 else float("nan")
Lift(f_triggered, f_not_triggered) ==
    IF GtZero(f_not_triggered) THEN FloatDiv(f_triggered, f_not_triggered) ELSE NaN

\* The mean without its guard: nan when the rule is triggered on no record.
FraudRateTriggeredUnguarded(d, c, total_triggered) ==
    Times100(Mean(Col(Where(d, LAMBDA r : r[c] = 1), "label")))

\* f_triggered = df.loc[df[c]==1, "label"].mean() * 100 if total_triggered > 0 else 0
FraudRateTriggered(d, c, total_triggered) ==
    IF total_triggered > 0
    THEN Times100(Mean(Col(Where(d, LAMBDA r : r[c] = 1), "label")))
    ELSE Fin(0, 1)

\* The fraud rate of all the records instead of those not triggered.
FraudRateOfAll(d, c) == Times100(Mean(Col(d, "label")))

\* f_not_triggered = df.loc[df[c]==0, "label"].mean() * 100
FraudRateNotTriggered(d, c) == Times100(Mean(Col(Where(d, LAMBDA r : r[c] = 0), "label")))

RuleStatOf(c, total_triggered, trigger_rate, f_triggered, f_not_triggered) ==
    [ rule |-> c, cnt |-> total_triggered, tr |-> trigger_rate,
      ft |-> f_triggered, fn |-> f_not_triggered,
      lift |-> Lift(f_triggered, f_not_triggered) ]

\* One tuple of rule_stats.
RuleStat(d, c) ==
    RuleStatOf(c, SumSeq(Col(d, c)), Times100(Mean(Col(d, c))),
               FraudRateTriggered(d, c, SumSeq(Col(d, c))), FraudRateNotTriggered(d, c))

\* The labels with the thresholds included: ft >= 50 and so on.
StrengthInclusive(ft) ==
    IF ft.n >= 50 * ft.d THEN "Very High"
    ELSE IF ft.n >= 30 * ft.d THEN "High"
    ELSE IF ft.n >= 15 * ft.d THEN "Medium"
    ELSE "Low"

\* The signal strength of a fraud rate when triggered.
Strength(ft) ==
    IF GtRat(ft, 50, 1) THEN "Very High"
    ELSE IF GtRat(ft, 30, 1) THEN "High"
    ELSE IF GtRat(ft, 15, 1) THEN "Medium"
    ELSE "Low"

\* f"{lift:.2f}x" if not np.isnan(lift) else "N/A"
LiftCell(lift) == IF lift.k = "nan" THEN Str("N/A") ELSE Fmt(lift, 2)

\* A descending sort that exchanges the tuples of equal key.
RuleStatsSortedExchanged(rule_stats) ==
    Pick(rule_stats, OrderDesc(MapSeq(rule_stats, LAMBDA x : x.ft), FloatGt, FALSE))

\* rule_stats.sort(key=lambda x: x[3], reverse=True)
RuleStatsSorted(rule_stats) == ListSortDesc(rule_stats, LAMBDA x : x.ft, FloatGt)

\* Section 1: one sheet row per rule.
RuleRows(d) ==
    MapSeq(RuleStatsSorted(MapSeq(rule_cols, LAMBDA c : RuleStat(d, c))),
           LAMBDA x : [ rule     |-> x.rule,
                        cnt      |-> Num(x.cnt),
                        tr       |-> Fmt(x.tr, 2),
                        ft       |-> Fmt(x.ft, 1),
                        fn       |-> Fmt(x.fn, 1),
                        lift     |-> LiftCell(x.lift),
                        strength |-> Strength(x.ft) ])

\* Section 2: the distribution of rule_trigger_count.
TriggerCountRows(d) ==
    MapSeq(GroupByLabel(d, "rule_trigger_count", TRUE),
           LAMBDA g : [ trigger_count |-> Num(g.value),
                        total         |-> Num(g.total),
                        pct_all       |-> Fmt(Fin(g.total * 100, Len(d)), 1),
                        fraud         |-> Num(g.fraud),
                        fraud_rate    |-> Fmt(Times100(g.mean), 1) ])

sev_desc(v) ==
    IF v = 0 THEN "No rules triggered"
    ELSE IF v = 1 THEN "Low-severity rule(s) only"
    ELSE IF v = 2 THEN "Medium-severity rule(s)"
    ELSE IF v = 3 THEN "High-severity rule(s)"
    ELSE ""

\* Section 3: max rule severity against fraud rate.
SeverityRows(d) ==
    MapSeq(GroupByLabel(d, "max_rule_severity", TRUE),
           LAMBDA g : [ severity    |-> Num(g.value),
                        description |-> sev_desc(g.value),
                        total       |-> Num(g.total),
                        fraud       |-> Num(g.fraud),
                        fraud_rate  |-> Fmt(Times100(g.mean), 1) ])

sheet_rules(w, d) ==
    Result(CreateSheet(w, "8_Rule_Features",
             [ rules |-> RuleRows(d), tc |-> TriggerCountRows(d), ms |-> SeverityRows(d) ]),
           d, FALSE)

(***************************************************************************)
(* Sheet 9: sheet_temporal (the table by hour).                            *)
(***************************************************************************)
Period(h) ==
    IF h >= 22 \/ h < 6 THEN "Night (22-05)"
    ELSE IF h < 9 THEN "Early Morning (6-8)"
    ELSE IF h < 17 THEN "Business (9-17)"
    ELSE "Evening (17-21)"

sheet_temporal(w, d) ==
    Result(CreateSheet(w, "9_Temporal_Analysis",
             [hours |-> MapSeq(GroupByLabel(d, "hour", TRUE),
                 LAMBDA g : [ hour       |-> Num(g.value),
                              total      |-> Num(g.total),
                              fraud      |-> Num(g.fraud),
                              fraud_rate |-> Fmt(Times100(g.mean), 1),
                              period     |-> Period(g.value) ])]),
           d, FALSE)

(***************************************************************************)
(* Sheet 10: sheet_fraud_types.                                            *)
(***************************************************************************)
fraud_types == <<"mule_ring", "layering", "smurfing", "ATO", "identity_fraud">>

\* rule_cols of sheet_fraud_types:
\* [c for c in df.columns if c.startswith("rule_") and c not in ["rule_trigger_count"]]
rule_cols_fraud_types ==
    Filter(Columns, LAMBDA c : c \in RulePrefixed /\ c \notin {"rule_trigger_count"})

\* head(5) of the top triggered rules.
TopRulesCount == 5

\* The values with the highest count, in the order of counted.
MostFrequent(counted) ==
    Filter(counted, LAMBDA e : \A j \in 1..Len(counted) : counted[j].n <= e.n)

\* Series.mode(): the most frequent non-null values in ascending order; the
\* result is empty when there is no non-null value.
ModeValues(d, c) ==
    MapSeq(MostFrequent(MapSeq(GroupKeys(d, c, TRUE),
                               LAMBDA v : [value |-> v,
                                           n |-> Len(Where(d, LAMBDA r : r[c] = v))])),
           LAMBDA e : e.value)

\* mode()[0] raises on an empty result.
ModeRaises(d, c) == Len(ModeValues(d, c)) = 0

Blank == Str("")

\* The key_metrics list of one fraud type.
KeyMetrics(sub, normal) ==
    << [ metric |-> "Transaction Count",
         fval |-> Num(Len(sub)), nval |-> Num(Len(normal)), ratio |-> Blank ],
       [ metric |-> "Average Amount",
         fval  |-> Fmt(Mean(Col(sub, "amount")), 2),
         nval  |-> Fmt(Mean(Col(normal, "amount")), 2),
         ratio |-> Fmt(FloatDiv(Mean(Col(sub, "amount")), Mean(Col(normal, "amount"))), 2) ],
       [ metric |-> "Median Amount",
         fval  |-> Fmt(Percentile(SortAsc(Col(sub, "amount")), 50), 2),
         nval  |-> Fmt(Percentile(SortAsc(Col(normal, "amount")), 50), 2),
         ratio |-> Blank ],
       [ metric |-> "Night Txn Rate",
         fval  |-> Fmt(Times100(Mean(Col(sub, "is_night"))), 1),
         nval  |-> Fmt(Times100(Mean(Col(normal, "is_night"))), 1),
         ratio |-> Blank ],
       [ metric |-> "Avg devices_per_account",
         fval  |-> Fmt(Mean(NonNull(sub, "devices_per_account")), 2),
         nval  |-> Fmt(Mean(NonNull(normal, "devices_per_account")), 2),
         ratio |-> Fmt(FloatDiv(Mean(NonNull(sub, "devices_per_account")),
                                Mean(NonNull(normal, "devices_per_account"))), 2) ],
       [ metric |-> "Top Channel",
         fval  |-> Str(ModeValues(sub, "channel")[1]),
         nval  |-> Str(ModeValues(normal, "channel")[1]),
         ratio |-> Blank ] >>

\* sub[rule_cols].mean().sort_values(ascending=False)
RuleMeansSorted(sub, qs) ==
    SortValuesDesc(MapSeq(rule_cols_fraud_types,
                          LAMBDA c : [rule |-> c, rate |-> Mean(Col(sub, c))]),
                   LAMBDA r : r.rate, FloatGt, qs)

Head5(sorted) ==
    SubSeq(sorted, 1, IF Len(sorted) < TopRulesCount THEN Len(sorted) ELSE TopRulesCount)

\* The top triggered rules of one fraud type.
TopRules(sub, qs) ==
    MapSeq(Head5(RuleMeansSorted(sub, qs)),
           LAMBDA r : [rule |-> r.rule, rate |-> Fmt(Times100(r.rate), 1)])

FraudTypeRaises(d, ft) ==
    \/ ModeRaises(Where(d, LAMBDA r : r.fraud_type = ft), "channel")
    \/ ModeRaises(Where(d, LAMBDA r : r.fraud_type = "normal"), "channel")

\* The block of one fraud type over its rows sub and the baseline rows
\* normal; only its header row when building key_metrics raises.
FraudTypeBlockOf(ft, sub, normal, raises, qs) ==
    IF raises
    THEN [fraud_type |-> ft, n |-> Len(sub), metrics |-> <<>>, top_rules |-> <<>>]
    ELSE [fraud_type |-> ft, n |-> Len(sub), metrics |-> KeyMetrics(sub, normal),
          top_rules |-> TopRules(sub, qs)]

FraudTypeBlock(d, ft, qs) ==
    FraudTypeBlockOf(ft, Where(d, LAMBDA r : r.fraud_type = ft),
                     Where(d, LAMBDA r : r.fraud_type = "normal"),
                     FraudTypeRaises(d, ft), qs)

\* The blocks up to and including the first one that raises.
FraudTypeBlocks(d, failing, qs) ==
    MapSeq(SubSeq(fraud_types, 1, IF Len(failing) = 0 THEN Len(fraud_types) ELSE failing[1]),
           LAMBDA ft : FraudTypeBlock(d, ft, qs))

FailingTypes(d) ==
    SelectIdx(1, Len(fraud_types),
              [i \in 1..Len(fraud_types) |-> FraudTypeRaises(d, fraud_types[i])])

sheet_fraud_types(w, d, qs) ==
    Result(CreateSheet(w, "10_Fraud_Type_Analysis",
             [blocks |-> FraudTypeBlocks(d, FailingTypes(d), qs)]),
           d, Len(FailingTypes(d)) # 0)

(***************************************************************************)
(* Sheet 11: sheet_correlations.                                           *)
(***************************************************************************)
\* Pearson's r from the sums of n pairs, carried exactly as its sign and
\* its square; nan when either variance is 0.
PearsonOf(n, cxy, vx, vy) ==
    IF n < 2 \/ vx = 0 \/ vy = 0
    THEN [k |-> "nan", sign |-> 0, sq |-> NaN]
    ELSE [k |-> "fin", sign |-> IF cxy > 0 THEN 1 ELSE IF cxy < 0 THEN 0 - 1 ELSE 0,
          sq |-> Fin(cxy * cxy, vx * vy)]

PearsonXY(x, y) ==
    PearsonOf(Len(x),
              Len(x) * SumSeq([i \in 1..Len(x) |-> x[i] * y[i]]) - SumSeq(x) * SumSeq(y),
              Len(x) * SumSeq([i \in 1..Len(x) |-> x[i] * x[i]]) - SumSeq(x) * SumSeq(x),
              Len(x) * SumSeq([i \in 1..Len(x) |-> y[i] * y[i]]) - SumSeq(y) * SumSeq(y))

\* The coefficient of column c with label over the rows where c is not null.
Pearson(d, c) ==
    PearsonXY(Col(Where(d, LAMBDA r : ~IsNull(r, c)), c),
              Col(Where(d, LAMBDA r : ~IsNull(r, c)), "label"))

\* The buckets with the thresholds included: r >= 0.5 and so on.
signal_strength_inclusive(r) ==
    IF r.k = "nan" THEN "Negligible"
    ELSE IF ~GtRat(Fin(25, 100), r.sq.n, r.sq.d) THEN "Very Strong"
    ELSE IF ~GtRat(Fin(9, 100), r.sq.n, r.sq.d) THEN "Strong"
    ELSE IF ~GtRat(Fin(225, 10000), r.sq.n, r.sq.d) THEN "Moderate"
    ELSE IF ~GtRat(Fin(25, 10000), r.sq.n, r.sq.d) THEN "Weak"
    ELSE "Negligible"

\* The bucket of a coefficient r by its absolute value (here by its square).
signal_strength(r) ==
    IF r.k = "nan" THEN "Negligible"
    ELSE IF GtRat(r.sq, 25, 100) THEN "Very Strong"
    ELSE IF GtRat(r.sq, 9, 100) THEN "Strong"
    ELSE IF GtRat(r.sq, 225, 10000) THEN "Moderate"
    ELSE IF GtRat(r.sq, 25, 10000) THEN "Weak"
    ELSE "Negligible"

\* sort_values(key=abs, ascending=False): the nan coefficients are kept and
\* come last, in column order.
CorrSortedOf(corr, qs) ==
    SortValuesDesc(Filter(corr, LAMBDA e : e.r.k = "fin"), LAMBDA e : e.r.sq, FloatGt, qs)
      \o Filter(corr, LAMBDA e : e.r.k = "nan")

\* df[numeric_cols + ["label"]].corr()["label"].drop("label"), sorted.
CorrSorted(d, qs) ==
    CorrSortedOf(MapSeq(NumericCols({"label", "account_id_x", "account_id_y"}),
                        LAMBDA c : [feature |-> c, r |-> Pearson(d, c)]), qs)

CorrRows(corr_df) ==
    [j \in 1..Len(corr_df) |->
        [ rank      |-> j,
          feature   |-> corr_df[j].feature,
          group     |-> GroupOf(corr_df[j].feature),
          pearson_r |-> corr_df[j].r,
          direction |-> IF corr_df[j].r.sign > 0 THEN "Positive" ELSE "Negative",
          signal    |-> signal_strength(corr_df[j].r) ]]

sheet_correlations(w, d, qs) ==
    Result(CreateSheet(w, "11_Top_Correlations", [rows |-> CorrRows(CorrSorted(d, qs))]),
           d, FALSE)

(***************************************************************************)
(* main(): the sheet functions in order, then wb.save(OUTPUT_PATH).        *)
(***************************************************************************)
\* main() with the calls of sheet_missing and sheet_graph_eda exchanged.
MainOrderExchanged ==
    << "sheet_overview", "sheet_data_dict", "sheet_formulas", "sheet_desc_stats",
       "sheet_graph_eda", "sheet_missing", "sheet_categoricals", "sheet_rules",
       "sheet_temporal", "sheet_fraud_types", "sheet_correlations" >>

MainOrder ==
    << "sheet_overview", "sheet_data_dict", "sheet_formulas", "sheet_desc_stats",
       "sheet_missing", "sheet_graph_eda", "sheet_categoricals", "sheet_rules",
       "sheet_temporal", "sheet_fraud_types", "sheet_correlations" >>

IndexOf(step) == CHOOSE i \in 1..Len(MainOrder) : MainOrder[i] = step

\* The call of one sheet function on the workbook w and the dataset d.
Section(step, w, d, qs) ==
    CASE step = "sheet_overview"     -> sheet_overview(w, d, qs)
      [] step = "sheet_data_dict"    -> sheet_data_dict(w, d)
      [] step = "sheet_formulas"     -> sheet_formulas(w, d)
      [] step = "sheet_desc_stats"   -> sheet_desc_stats(w, d)
      [] step = "sheet_missing"      -> sheet_missing(w, d, qs)
      [] step = "sheet_graph_eda"    -> sheet_graph_eda(w, d)
      [] step = "sheet_categoricals" -> sheet_categoricals(w, d, qs)
      [] step = "sheet_rules"        -> sheet_rules(w, d)
      [] step = "sheet_temporal"     -> sheet_temporal(w, d)
      [] step = "sheet_fraud_types"  -> sheet_fraud_types(w, d, qs)
      [] step = "sheet_correlations" -> sheet_correlations(w, d, qs)

\* A main() that saves the workbook when a sheet function has raised.
AfterCallSaves(step, raised) ==
    IF raised \/ IndexOf(step) = Len(MainOrder) THEN "save"
    ELSE MainOrder[IndexOf(step) + 1]

\* A main() that catches the exception of a sheet function and goes on.
AfterCallCaught(step, raised) ==
    IF IndexOf(step) = Len(MainOrder) THEN "save" ELSE MainOrder[IndexOf(step) + 1]

\* Where main() is after the call of step: an exception is not caught and
\* leaves main(); otherwise the next statement.
AfterCall(step, raised) ==
    IF raised THEN "raised"
    ELSE IF IndexOf(step) = Len(MainOrder) THEN "save"
    ELSE MainOrder[IndexOf(step) + 1]

Init ==
    /\ df \in Datasets
    /\ quicksort \in {"kept", "exchanged"}
    /\ wb = <<>>
    /\ pc = MainOrder[1]
    /\ exc = ""
    /\ file = <<>>

\* The effect of a call of step that returned r; after is where control
\* goes when it did not raise.
Return(step, r, after) ==
    /\ wb' = r.wb
    /\ df' = r.df
    /\ exc' = IF r.raised THEN step ELSE ""
    /\ pc' = IF r.raised THEN AfterCall(step, TRUE) ELSE after
    /\ UNCHANGED <<file, quicksort>>

RunOverview ==
    /\ pc = "sheet_overview"
    /\ Return("sheet_overview", sheet_overview(wb, df, quicksort),
              AfterCall("sheet_overview", FALSE))

RunDataDict ==
    /\ pc = "sheet_data_dict"
    /\ Return("sheet_data_dict", sheet_data_dict(wb, df),
              AfterCall("sheet_data_dict", FALSE))

RunFormulas ==
    /\ pc = "sheet_formulas"
    /\ Return("sheet_formulas", sheet_formulas(wb, df),
              AfterCall("sheet_formulas", FALSE))

RunDescStats ==
    /\ pc = "sheet_desc_stats"
    /\ Return("sheet_desc_stats", sheet_desc_stats(wb, df),
              AfterCall("sheet_desc_stats", FALSE))

RunMissing ==
    /\ pc = "sheet_missing"
    /\ Return("sheet_missing", sheet_missing(wb, df, quicksort),
              AfterCall("sheet_missing", FALSE))

RunGraphEda ==
    /\ pc = "sheet_graph_eda"
    /\ Return("sheet_graph_eda", sheet_graph_eda(wb, df),
              AfterCall("sheet_graph_eda", FALSE))

RunCategoricals ==
    /\ pc = "sheet_categoricals"
    /\ Return("sheet_categoricals", sheet_categoricals(wb, df, quicksort),
              AfterCall("sheet_categoricals", FALSE))

RunRules ==
    /\ pc = "sheet_rules"
    /\ Return("sheet_rules", sheet_rules(wb, df), AfterCall("sheet_rules", FALSE))

RunTemporal ==
    /\ pc = "sheet_temporal"
    /\ Return("sheet_temporal", sheet_temporal(wb, df), AfterCall("sheet_temporal", FALSE))

RunFraudTypes ==
    /\ pc = "sheet_fraud_types"
    /\ Return("sheet_fraud_types", sheet_fraud_types(wb, df, quicksort),
              AfterCall("sheet_fraud_types", FALSE))

RunCorrelations ==
    /\ pc = "sheet_correlations"
    /\ Return("sheet_correlations", sheet_correlations(wb, df, quicksort),
              AfterCall("sheet_correlations", FALSE))

\* wb.save(OUTPUT_PATH)
Save ==
    /\ pc = "save"
    /\ file' = wb
    /\ pc' = "done"
    /\ UNCHANGED <<df, wb, exc, quicksort>>

Next ==
    \/ RunOverview
    \/ RunDataDict
    \/ RunFormulas
    \/ RunDescStats
    \/ RunMissing
    \/ RunGraphEda
    \/ RunCategoricals
    \/ RunRules
    \/ RunTemporal
    \/ RunFraudTypes
    \/ RunCorrelations
    \/ Save

Spec == Init /\ [][Next]_vars

(***************************************************************************)
(* The sheet functions called in any order.  Every sheet function takes    *)
(* the module-level wb and df; this specification calls them in orders     *)
(* other than main()'s, to compare what they write with what they write    *)
(* under main().                                                           *)
(***************************************************************************)
\* The sheet function that creates the sheet of a title.
StepOf(title) ==
    CASE title = "1_Overview"                  -> "sheet_overview"
      [] title = "2_Data_Dictionary"           -> "sheet_data_dict"
      [] title = "3_Feature_Formulas"          -> "sheet_formulas"
      [] title = "4_Descriptive_Stats"         -> "sheet_desc_stats"
      [] title = "5_Missing_Values"            -> "sheet_missing"
      [] title = "6_Graph_Features_EDA"        -> "sheet_graph_eda"
      [] title = "7_Categorical_Distributions" -> "sheet_categoricals"
      [] title = "8_Rule_Features"             -> "sheet_rules"
      [] title = "9_Temporal_Analysis"         -> "sheet_temporal"
      [] title = "10_Fraud_Type_Analysis"      -> "sheet_fraud_types"
      [] title = "11_Top_Correlations"         -> "sheet_correlations"

\* The calls that built w, as positions in main()'s order.
CallsOf(w) == [i \in 1..Len(w) |-> IndexOf(StepOf(w[i].title))]

\* The first position of main()'s order that is not among the first n of
\* calls.
NextInOrder(calls, n) ==
    CHOOSE k \in 1..(Len(MainOrder) + 1) :
        /\ \A j \in 1..n : calls[j] # k
        /\ \A m \in 1..(k - 1) : \E j \in 1..n : calls[j] = m

\* How many of calls were not the next one of main()'s order at the time.
OutOfOrderCalls(calls) ==
    Cardinality({i \in 1..Len(calls) : calls[i] # NextInOrder(calls, i - 1)})

OutOfOrder(w) == OutOfOrderCalls(CallsOf(w))

\* The datasets the sheet functions are called on in any order: no record,
\* one record of every fraud type, and the latter after a record without a
\* channel.
AnyOrderDatasets ==
    { <<>>,
      AllTypesRows,
      <<Row("individual", 10, NullStr, "layering", 7, 0, 1)>> \o AllTypesRows }

InitAnyOrder ==
    /\ df \in AnyOrderDatasets
    /\ quicksort \in {"kept", "exchanged"}
    /\ wb = <<>>
    /\ pc = "any"
    /\ exc = ""
    /\ file = <<>>

\* step may be called: it has not been, and it is the next one of main()'s
\* order or the out-of-order calls are not used up.
CanCallAfter(k, calls) ==
    /\ \A j \in 1..Len(calls) : calls[j] # k
    /\ k = NextInOrder(calls, Len(calls)) \/ OutOfOrderCalls(calls) < MaxOutOfOrder

CanCall(step) == pc = "any" /\ CanCallAfter(IndexOf(step), CallsOf(wb))

\* Where control is after a call that did not raise, made on w.
AfterAnyCall(w) == IF Len(w) + 1 = Len(MainOrder) THEN "save" ELSE "any"

CallOverview ==
    /\ CanCall("sheet_overview")
    /\ Return("sheet_overview", sheet_overview(wb, df, quicksort), AfterAnyCall(wb))

CallDataDict ==
    /\ CanCall("sheet_data_dict")
    /\ Return("sheet_data_dict", sheet_data_dict(wb, df), AfterAnyCall(wb))

CallFormulas ==
    /\ CanCall("sheet_formulas")
    /\ Return("sheet_formulas", sheet_formulas(wb, df), AfterAnyCall(wb))

CallDescStats ==
    /\ CanCall("sheet_desc_stats")
    /\ Return("sheet_desc_stats", sheet_desc_stats(wb, df), AfterAnyCall(wb))

CallMissing ==
    /\ CanCall("sheet_missing")
    /\ Return("sheet_missing", sheet_missing(wb, df, quicksort), AfterAnyCall(wb))

CallGraphEda ==
    /\ CanCall("sheet_graph_eda")
    /\ Return("sheet_graph_eda", sheet_graph_eda(wb, df), AfterAnyCall(wb))

CallCategoricals ==
    /\ CanCall("sheet_categoricals")
    /\ Return("sheet_categoricals", sheet_categoricals(wb, df, quicksort), AfterAnyCall(wb))

CallRules ==
    /\ CanCall("sheet_rules")
    /\ Return("sheet_rules", sheet_rules(wb, df), AfterAnyCall(wb))

CallTemporal ==
    /\ CanCall("sheet_temporal")
    /\ Return("sheet_temporal", sheet_temporal(wb, df), AfterAnyCall(wb))

CallFraudTypes ==
    /\ CanCall("sheet_fraud_types")
    /\ Return("sheet_fraud_types", sheet_fraud_types(wb, df, quicksort), AfterAnyCall(wb))

CallCorrelations ==
    /\ CanCall("sheet_correlations")
    /\ Return("sheet_correlations", sheet_correlations(wb, df, quicksort), AfterAnyCall(wb))

NextAnyOrder ==
    \/ CallOverview
    \/ CallDataDict
    \/ CallFormulas
    \/ CallDescStats
    \/ CallMissing
    \/ CallGraphEda
    \/ CallCategoricals
    \/ CallRules
    \/ CallTemporal
    \/ CallFraudTypes
    \/ CallCorrelations
    \/ Save

AnyOrderSpec == InitAnyOrder /\ [][NextAnyOrder]_vars

(***************************************************************************)
(* Properties.                                                             *)
(***************************************************************************)
HasSheet(w, title) == \E i \in 1..Len(w) : w[i].title = title
SheetOf(w, title) == w[CHOOSE i \in 1..Len(w) : w[i].title = title]
Tables(title) == SheetOf(wb, title).tables

\* The rows of d with value v in column c, and the fraud rows among them.
CountRows(d, c, v) == Cardinality({i \in 1..Len(d) : d[i][c] = v})
CountFraud(d, c, v) == Cardinality({i \in 1..Len(d) : d[i][c] = v /\ d[i].label = 1})

\* The quotient of the fraud rate among the n1 triggered rows (f1 of them
\* fraud) and the fraud rate among the n0 rows not triggered (f0 fraud).
RateQuotient(n1, f1, n0, f0) ==
    IF n1 = 0 THEN Fin(0, 1) ELSE Fin(f1 * n0, n1 * f0)

\* The lift cell the rule c should show for d: the quotient of the two
\* rates when the rate of the rows not triggered is defined and not zero,
\* the sentinel otherwise.
LiftByCounting(d, c) ==
    IF CountRows(d, c, 0) > 0 /\ CountFraud(d, c, 0) > 0
    THEN Fmt(RateQuotient(CountRows(d, c, 1), CountFraud(d, c, 1),
                          CountRows(d, c, 0), CountFraud(d, c, 0)), 2)
    ELSE Str("N/A")

\* C1: once sheet_rules has run, it has not raised, there is one row for
\* every rule column, and the lift cell of every rule is the fraud rate when
\* triggered divided by the fraud rate when not triggered if the latter is
\* not zero, and "N/A" in every other case.
LiftIsQuotientOrSentinel ==
    HasSheet(wb, "8_Rule_Features") =>
        /\ exc # "sheet_rules"
        /\ {r.rule : r \in Range(Tables("8_Rule_Features").rules)} = Range(rule_cols)
        /\ \A r \in Range(Tables("8_Rule_Features").rules) :
               r.lift = LiftByCounting(df, r.rule)

\* C1 witness: a rules sheet with a lift that is a quotient greater than 0
\* and a lift that is the sentinel.
LiftQuotientAndSentinelSeen ==
    /\ HasSheet(wb, "8_Rule_Features")
    /\ \E r \in Range(Tables("8_Rule_Features").rules) : r.lift.t = "num" /\ r.lift.v > 0
    /\ \E r \in Range(Tables("8_Rule_Features").rules) : r.lift = Str("N/A")

NotDefined(cell) == cell \in {Str("nan"), Str("inf")}

\* C2: no rate or ratio cell of any sheet carries nan or inf: the rule
\* rates and lift, the graph fraud/legit ratio, the fraud-type ratios and
\* the null percentages.
NoUndefinedRatioCell ==
    /\ HasSheet(wb, "8_Rule_Features") =>
           \A r \in Range(Tables("8_Rule_Features").rules) :
               ~NotDefined(r.tr) /\ ~NotDefined(r.ft) /\ ~NotDefined(r.fn)
                   /\ ~NotDefined(r.lift)
    /\ HasSheet(wb, "6_Graph_Features_EDA") =>
           \A r \in Range(Tables("6_Graph_Features_EDA").compare) : ~NotDefined(r.ratio)
    /\ HasSheet(wb, "10_Fraud_Type_Analysis") =>
           \A b \in Range(Tables("10_Fraud_Type_Analysis").blocks) :
               \A m \in Range(b.metrics) : ~NotDefined(m.ratio)
    /\ HasSheet(wb, "5_Missing_Values") =>
           \A r \in Range(Tables("5_Missing_Values").rows) : ~NotDefined(r.null_pct)

\* C2 witness of the sites: a report with all four kinds of cells.
RatioCellsSeen ==
    /\ HasSheet(wb, "8_Rule_Features")
    /\ HasSheet(wb, "6_Graph_Features_EDA")
    /\ HasSheet(wb, "10_Fraud_Type_Analysis")
    /\ HasSheet(wb, "5_Missing_Values")

NoSectionRaises == exc = ""

\* The titles of the sections in the canonical order.
CanonicalTitles ==
    << "1_Overview", "2_Data_Dictionary", "3_Feature_Formulas", "4_Descriptive_Stats",
       "5_Missing_Values", "6_Graph_Features_EDA", "7_Categorical_Distributions",
       "8_Rule_Features", "9_Temporal_Analysis", "10_Fraud_Type_Analysis",
       "11_Top_Correlations" >>

TitlesOf(w) == [i \in 1..Len(w) |-> w[i].title]

\* C5: the workbook holds the sections in the canonical order, each once,
\* at every point of the run, and the saved report holds all eleven of them
\* in that order.
SectionsInCanonicalOrder ==
    /\ TitlesOf(wb) = SubSeq(CanonicalTitles, 1, Len(wb))
    /\ pc \in {"save", "done"} => TitlesOf(wb) = CanonicalTitles
    /\ pc = "done" => TitlesOf(file) = CanonicalTitles
    /\ pc # "done" => file = <<>>

\* C5 witness: a saved report.
ReportSaved == pc = "done" /\ Len(file) = Len(CanonicalTitles)

\* C6: no step of the run changes the dataset.
DatasetNeverModified == [][df' = df]_vars

\* C6 witness: every sheet function has run on a dataset with records.
AllSectionsRanOnRecords == pc = "done" /\ Len(df) > 1 /\ Len(wb) = Len(MainOrder)

RECURSIVE SequentialWb(_, _, _)
\* The workbook after the first k calls of main(), on the dataset d.
SequentialWb(k, d, qs) ==
    IF k = 0 THEN <<>>
    ELSE Section(MainOrder[k], SequentialWb(k - 1, d, qs), d, qs).wb

\* Every sheet of w is the sheet of the same title in sequential.
SameSheets(w, sequential) ==
    \A i \in 1..Len(w) :
        SubSeq(w, i, i) = SubSeq(sequential, IndexOf(StepOf(w[i].title)),
                                 IndexOf(StepOf(w[i].title)))

Exchanged(d, i) ==
    [j \in 1..Len(d) |-> IF j = i THEN d[i + 1] ELSE IF j = i + 1 THEN d[i] ELSE d[j]]

\* C8: the sheet a function writes is the sheet it writes for the dataset
\* with any two neighbouring records exchanged.
TablesIndependentOfRecordOrder ==
    Len(wb) > 0 =>
        \A i \in 1..(Len(df) - 1) :
            <<wb[Len(wb)]>> =
                Section(StepOf(wb[Len(wb)].title), <<>>, Exchanged(df, i), quicksort).wb

\* The place of a column in the dataset.
ColumnIndex(c) == CHOOSE i \in 1..Len(Columns) : Columns[i] = c

\* C9: the rows of the missing-values sheet are in descending order of null
\* count, and rows with the same null count are in the order of their
\* columns in the dataset.
MissingSortedStable ==
    HasSheet(wb, "5_Missing_Values") =>
        \A i, j \in 1..Len(Tables("5_Missing_Values").rows) :
            i < j =>
                \/ Tables("5_Missing_Values").rows[i].null_count.v
                       > Tables("5_Missing_Values").rows[j].null_count.v
                \/ /\ Tables("5_Missing_Values").rows[i].null_count
                          = Tables("5_Missing_Values").rows[j].null_count
                   /\ ColumnIndex(Tables("5_Missing_Values").rows[i].column)
                          < ColumnIndex(Tables("5_Missing_Values").rows[j].column)

\* C10: the missing-values sheet has exactly one row for every column of
\* the dataset, with the number of nulls of that column, the columns
\* without nulls included.
OneMissingRowPerColumn ==
    HasSheet(wb, "5_Missing_Values") =>
        /\ Len(Tables("5_Missing_Values").rows) = Len(Columns)
        /\ \A c \in Range(Columns) :
               \E i \in 1..Len(Tables("5_Missing_Values").rows) :
                   /\ Tables("5_Missing_Values").rows[i].column = c
                   /\ Tables("5_Missing_Values").rows[i].null_count
                          = Num(Cardinality({k \in 1..Len(df) : IsNull(df[k], c)}))

\* C10 witness: a missing-values sheet with a row of count 0 and a row of
\* a count above 0.
ZeroAndNonZeroMissingRows ==
    /\ HasSheet(wb, "5_Missing_Values")
    /\ \E r \in Range(Tables("5_Missing_Values").rows) : r.null_count = Num(0)
    /\ \E r \in Range(Tables("5_Missing_Values").rows) : r.null_count.v > 0

\* The null of a column.
NullOf(c) == IF c \in NumericColumns THEN NullNum ELSE NullStr

\* The total counts of the rows of a table, added up.
SumTotals(rows) == SumSeq([i \in 1..Len(rows) |-> rows[i].total.v])

\* C11: every categorical column of the dataset has a table; the rows with
\* a null in the column form one group of their own, whose total is their
\* number, and the totals of the table add up to the number of records.
CategoricalTotalsCoverRows ==
    HasSheet(wb, "7_Categorical_Distributions") =>
        /\ {t.column : t \in Range(Tables("7_Categorical_Distributions").tables)}
               = Range(cat_cols) \cap Range(Columns)
        /\ \A t \in Range(Tables("7_Categorical_Distributions").tables) :
               /\ SumTotals(t.rows) = Len(df)
               /\ \A v \in Range(Col(df, t.column)) :
                      Cardinality({i \in 1..Len(t.rows) : t.rows[i].value = v}) = 1
               /\ \A r \in Range(t.rows) :
                      r.total = Num(CountRows(df, t.column, r.value))

\* C11 witness: a table with a group of nulls and a group of a value.
NullGroupSeen ==
    /\ HasSheet(wb, "7_Categorical_Distributions")
    /\ \E t \in Range(Tables("7_Categorical_Distributions").tables) :
           /\ \E r \in Range(t.rows) : r.value = NullOf(t.column) /\ r.total.v > 0
           /\ \E r \in Range(t.rows) : r.value # NullOf(t.column)

CorrelationRows == Tables("11_Top_Correlations").rows

\* C12: the correlation ranking has no row whose coefficient is nan: a
\* column without variance is left out of it.
NoUndefinedCorrelationRow ==
    HasSheet(wb, "11_Top_Correlations") =>
        \A r \in Range(CorrelationRows) : r.pearson_r.k # "nan"

\* C13: the ranks of the correlation ranking are 1, 2, ..., n over the
\* numeric columns other than label and the join keys, and the absolute
\* coefficient does not increase from a row to the next.
RanksGaplessAndAbsNonIncreasing ==
    HasSheet(wb, "11_Top_Correlations") =>
        /\ Len(CorrelationRows) = Cardinality(NumericColumns \ {"label"})
        /\ {r.feature : r \in Range(CorrelationRows)} = NumericColumns \ {"label"}
        /\ \A i \in 1..Len(CorrelationRows) : CorrelationRows[i].rank = i
        /\ \A i \in 1..(Len(CorrelationRows) - 1) :
               /\ CorrelationRows[i].pearson_r.k = "fin"
               /\ CorrelationRows[i + 1].pearson_r.k = "fin"
               /\ ~FloatGt(CorrelationRows[i + 1].pearson_r.sq, CorrelationRows[i].pearson_r.sq)

\* C14: two features with the same absolute coefficient are ranked in the
\* order of their columns in the dataset.
CorrelationTiesInColumnOrder ==
    HasSheet(wb, "11_Top_Correlations") =>
        \A i, j \in 1..Len(CorrelationRows) :
            /\ i < j
            /\ CorrelationRows[i].pearson_r.k = "fin"
            /\ CorrelationRows[i].pearson_r = CorrelationRows[j].pearson_r
            => ColumnIndex(CorrelationRows[i].feature) < ColumnIndex(CorrelationRows[j].feature)

\* A ranking with two features of the same absolute coefficient.
CorrelationTieSeen ==
    /\ HasSheet(wb, "11_Top_Correlations")
    /\ \E i, j \in 1..Len(CorrelationRows) :
           /\ i < j
           /\ CorrelationRows[i].pearson_r.k = "fin"
           /\ CorrelationRows[i].pearson_r.sq = CorrelationRows[j].pearson_r.sq

\* The bucket of a coefficient of square n/d: |r| > 0.5 is 4n > d, |r| > 0.3
\* is 100n > 9d, |r| > 0.15 is 400n > 9d, |r| > 0.05 is 400n > d.
BucketOfSquare(n, d) ==
    IF 4 * n > d THEN "Very Strong"
    ELSE IF 100 * n > 9 * d THEN "Strong"
    ELSE IF 400 * n > 9 * d THEN "Moderate"
    ELSE IF 400 * n > d THEN "Weak"
    ELSE "Negligible"

\* C15: the signal of every correlation row is the bucket of its absolute
\* coefficient by the strict thresholds 0.5, 0.3, 0.15 and 0.05; a
\* coefficient on a threshold is in the lower bucket, and a row without a
\* coefficient is "Negligible".
SignalBucketByStrictThresholds ==
    HasSheet(wb, "11_Top_Correlations") =>
        \A r \in Range(CorrelationRows) :
            r.signal = IF r.pearson_r.k = "fin"
                       THEN BucketOfSquare(r.pearson_r.sq.n, r.pearson_r.sq.d)
                       ELSE "Negligible"

\* C15 witness: a row whose absolute coefficient is exactly 0.3, in the
\* bucket below.
CoefficientOnThresholdSeen ==
    /\ HasSheet(wb, "11_Top_Correlations")
    /\ \E r \in Range(CorrelationRows) :
           r.pearson_r.k = "fin" /\ r.pearson_r.sq = Fin(9, 100) /\ r.signal = "Moderate"

\* The rows of d on which the rule c is triggered, at least 1 (a rule never
\* triggered has the rate 0 = 0/1).
TriggeredOrOne(d, c) == IF CountRows(d, c, 1) > 0 THEN CountRows(d, c, 1) ELSE 1

\* The fraud rate when triggered of the rule a is greater than (equal to)
\* that of the rule b, by counting records.
RateAbove(d, a, b) ==
    CountFraud(d, a, 1) * TriggeredOrOne(d, b) > CountFraud(d, b, 1) * TriggeredOrOne(d, a)
RateEqual(d, a, b) ==
    CountFraud(d, a, 1) * TriggeredOrOne(d, b) = CountFraud(d, b, 1) * TriggeredOrOne(d, a)

\* C16: the rows of the rule table are in descending order of the fraud
\* rate when triggered, and rules with the same rate are in the order of
\* their columns in the dataset.
RulesSortedStable ==
    HasSheet(wb, "8_Rule_Features") =>
        \A i, j \in 1..Len(Tables("8_Rule_Features").rules) :
            i < j =>
                \/ RateAbove(df, Tables("8_Rule_Features").rules[i].rule,
                                 Tables("8_Rule_Features").rules[j].rule)
                \/ /\ RateEqual(df, Tables("8_Rule_Features").rules[i].rule,
                                    Tables("8_Rule_Features").rules[j].rule)
                   /\ ColumnIndex(Tables("8_Rule_Features").rules[i].rule)
                        < ColumnIndex(Tables("8_Rule_Features").rules[j].rule)

\* C16 witness: a rule table with two rules triggered on different numbers
\* of records and of the same fraud rate when triggered, above 0.
EqualRuleRatesSeen ==
    /\ HasSheet(wb, "8_Rule_Features")
    /\ CountFraud(df, "rule_large_cash_deposit", 1) > 0
    /\ CountRows(df, "rule_large_cash_deposit", 1) # CountRows(df, "rule_night_transaction", 1)
    /\ RateEqual(df, "rule_large_cash_deposit", "rule_night_transaction")

\* The label of a rule with f fraud records among the n it is triggered on:
\* the rate is 100f/n, and 0 when n = 0.
StrengthByCounting(f, n) ==
    IF n = 0 THEN "Low"
    ELSE IF 100 * f > 50 * n THEN "Very High"
    ELSE IF 100 * f > 30 * n THEN "High"
    ELSE IF 100 * f > 15 * n THEN "Medium"
    ELSE "Low"

\* C17: the strength label of every rule row is the one its fraud rate when
\* triggered gives by the strict thresholds 50, 30 and 15; a rate equal to
\* a threshold has the lower label.
StrengthByStrictThresholds ==
    HasSheet(wb, "8_Rule_Features") =>
        \A r \in Range(Tables("8_Rule_Features").rules) :
            r.strength = StrengthByCounting(CountFraud(df, r.rule, 1), CountRows(df, r.rule, 1))

\* C17 witness: a rule table with a rule at exactly 30%, labelled "Medium",
\* and a rule at exactly 15%, labelled "Low".
RateOnThresholdSeen ==
    /\ HasSheet(wb, "8_Rule_Features")
    /\ \E r, s \in Range(Tables("8_Rule_Features").rules) :
           /\ r.ft = Num(300) /\ r.strength = "Medium"
           /\ 100 * CountFraud(df, r.rule, 1) = 30 * CountRows(df, r.rule, 1)
           /\ s.ft = Num(150) /\ s.strength = "Low"
           /\ 100 * CountFraud(df, s.rule, 1) = 15 * CountRows(df, s.rule, 1)

\* C18: in every rule row, the trigger count is the number of records with
\* the rule at 1, the trigger rate that count as a percentage of all the
\* records (when there are any), the fraud rate when triggered the fraud share of the records
\* with the rule at 1 (0 when there are none), and the fraud rate when not
\* triggered the fraud share of the records with the rule at 0, when there
\* are any.
RuleStatsByCounting ==
    HasSheet(wb, "8_Rule_Features") =>
        \A r \in Range(Tables("8_Rule_Features").rules) :
            /\ r.cnt = Num(CountRows(df, r.rule, 1))
            /\ Len(df) > 0 =>
                   r.tr = Fmt(Fin(100 * CountRows(df, r.rule, 1), Len(df)), 2)
            /\ r.ft = IF CountRows(df, r.rule, 1) = 0 THEN Num(0)
                      ELSE Fmt(Fin(100 * CountFraud(df, r.rule, 1), CountRows(df, r.rule, 1)), 1)
            /\ CountRows(df, r.rule, 0) > 0 =>
                   r.fn = Fmt(Fin(100 * CountFraud(df, r.rule, 0), CountRows(df, r.rule, 0)), 1)

\* C18 witness: a rule triggered on 4 of 10 records, 3 of them fraud, with
\* 3 fraud among the other 6, shown as 40.00%, 75.0%, 50.0% and 1.50x.
RuleExampleSeen ==
    /\ HasSheet(wb, "8_Rule_Features")
    /\ Len(df) = 10
    /\ \E r \in Range(Tables("8_Rule_Features").rules) :
           /\ CountRows(df, r.rule, 1) = 4 /\ CountFraud(df, r.rule, 1) = 3
           /\ CountFraud(df, r.rule, 0) = 3
           /\ r.cnt = Num(4) /\ r.tr = Num(4000) /\ r.ft = Num(750)
           /\ r.fn = Num(500) /\ r.lift = Num(150)

\* sheet_overview has run and has written its tables.
OverviewWritten == HasSheet(wb, "1_Overview") /\ exc # "sheet_overview"

\* The key metrics block has the cell v under the name k.
HasMetric(k, v) == \E m \in Range(Tables("1_Overview").metrics) : m.name = k /\ m.cell = v

\* The records of d with the label v.
CountLabel(d, v) == Cardinality({i \in 1..Len(d) : d[i].label = v})

\* C19: the key metrics give the number of records of label 1 as the fraud
\* count and the number of records of label 0 as the legitimate count, the
\* two add up to the number of records, and the overall fraud rate is the
\* fraud count divided by the number of records, as a percentage of two
\* decimals.
HeadlineCountsAndRate ==
    OverviewWritten =>
        /\ HasMetric("Total Transactions", Num(Len(df)))
        /\ HasMetric("Fraud Transactions (label=1)", Num(CountLabel(df, 1)))
        /\ HasMetric("Legitimate (label=0)", Num(Len(df) - CountLabel(df, 1)))
        /\ Len(df) > 0 =>
               HasMetric("Overall Fraud Rate", Fmt(Fin(100 * CountLabel(df, 1), Len(df)), 2))

\* C19 witness: 10 records, 6 of them fraud, reported as 6 fraud, 4
\* legitimate and 60.00%.
HeadlineExampleSeen ==
    /\ OverviewWritten
    /\ Len(df) = 10 /\ CountLabel(df, 1) = 6
    /\ HasMetric("Fraud Transactions (label=1)", Num(6))
    /\ HasMetric("Legitimate (label=0)", Num(4))
    /\ HasMetric("Overall Fraud Rate", Num(6000))

\* The channel breakdown of the overview.
ChannelRows == Tables("1_Overview").ch

\* C20: the channel breakdown has exactly one row for every channel value
\* of the dataset, with the number of records of that channel, the number
\* of fraud records among them and their quotient as the fraud rate; the
\* totals add up to the number of records and the fraud counts to the
\* number of fraud records.
ChannelBreakdownCoversRows ==
    OverviewWritten =>
        /\ {r.channel : r \in Range(ChannelRows)} = Range(Col(df, "channel"))
        /\ Len(ChannelRows) = Cardinality(Range(Col(df, "channel")))
        /\ \A r \in Range(ChannelRows) :
               /\ r.total = Num(CountRows(df, "channel", r.channel))
               /\ r.fraud_count = Num(CountFraud(df, "channel", r.channel))
               /\ r.fraud_rate = Fmt(Fin(100 * CountFraud(df, "channel", r.channel),
                                         CountRows(df, "channel", r.channel)), 2)
        /\ SumSeq(MapSeq(ChannelRows, LAMBDA r : r.total.v)) = Len(df)
        /\ SumSeq(MapSeq(ChannelRows, LAMBDA r : r.fraud_count.v)) = CountLabel(df, 1)

\* C20 witness: a breakdown of two channels with different totals, one of
\* them with fraud records and legitimate records.
TwoChannelsSeen ==
    /\ OverviewWritten
    /\ \E r, s \in Range(ChannelRows) :
           /\ r.channel # s.channel
           /\ r.total.v > s.total.v
           /\ r.fraud_count.v > 0 /\ r.fraud_count.v < r.total.v

\* The rows of the descriptive statistics sheet.
DescRows == Tables("4_Descriptive_Stats").rows

\* The value at the fractional position (Len(a) - 1) * p / 100 of the
\* ascending values a: the two order statistics around the position,
\* weighted by their distance to it.
WeightedAt(a, lo, hi, rem) == Fin(a[lo + 1] * (100 - rem) + a[hi + 1] * rem, 100)

Interpolated(a, p) ==
    IF Len(a) = 0 THEN NaN
    ELSE WeightedAt(a, ((Len(a) - 1) * p) \div 100,
                    IF ((Len(a) - 1) * p) % 100 = 0
                    THEN ((Len(a) - 1) * p) \div 100 ELSE (((Len(a) - 1) * p) \div 100) + 1,
                    ((Len(a) - 1) * p) % 100)

\* The non-null values of the column c of d, ascending.
AscendingValues(d, c) == SortAsc(NonNull(d, c))

\* The percentile cells of a row are the interpolated values of a.
PercentilesInterpolated(r, a) ==
    /\ r.p25 = Fmt(Interpolated(a, 25), 4)
    /\ r.p50 = Fmt(Interpolated(a, 50), 4)
    /\ r.p75 = Fmt(Interpolated(a, 75), 4)
    /\ r.p90 = Fmt(Interpolated(a, 90), 4)
    /\ r.p95 = Fmt(Interpolated(a, 95), 4)
    /\ r.p99 = Fmt(Interpolated(a, 99), 4)

\* C21: in the row of every numeric column with a non-null value,
\* min <= p25 <= p50 <= p75 <= p90 <= p95 <= p99 <= max, and every
\* percentile is the linear interpolation between the order statistics of
\* the column's non-null values.
PercentilesMonotone ==
    HasSheet(wb, "4_Descriptive_Stats") =>
        \A r \in Range(DescRows) :
            r.count.v > 0 =>
                /\ r.min.v <= r.p25.v /\ r.p25.v <= r.p50.v /\ r.p50.v <= r.p75.v
                /\ r.p75.v <= r.p90.v /\ r.p90.v <= r.p95.v /\ r.p95.v <= r.p99.v
                /\ r.p99.v <= r.max.v
                /\ PercentilesInterpolated(r, AscendingValues(df, r.feature))

\* C21 witness: a row of a column with null and non-null values whose
\* percentiles all lie strictly between its minimum and its maximum and
\* differ from each other.
DistinctPercentilesSeen ==
    /\ HasSheet(wb, "4_Descriptive_Stats")
    /\ \E r \in Range(DescRows) :
           /\ r.count.v > 0 /\ r.null_count.v > 0
           /\ r.min.v < r.p25.v /\ r.p25.v < r.p50.v /\ r.p50.v < r.p75.v
           /\ r.p75.v < r.p90.v /\ r.p90.v < r.p95.v /\ r.p95.v < r.p99.v
           /\ r.p99.v < r.max.v

\* Every statistic cell of the row r is the cell of a nan.
StatisticsUndefined(r) ==
    /\ r.mean = Fmt(NaN, 4) /\ r.min = Fmt(NaN, 4) /\ r.max = Fmt(NaN, 4)
    /\ r.p25 = Fmt(NaN, 4) /\ r.p50 = Fmt(NaN, 4) /\ r.p75 = Fmt(NaN, 4)
    /\ r.p90 = Fmt(NaN, 4) /\ r.p95 = Fmt(NaN, 4) /\ r.p99 = Fmt(NaN, 4)

\* C22: sheet_desc_stats does not raise, and a numeric column of a dataset
\* with records whose values are all null has a row with the non-null count
\* 0, the number of records as null count, the null percentage 100.00 and
\* every statistic undefined.
AllNullColumnRow ==
    HasSheet(wb, "4_Descriptive_Stats") =>
        /\ exc # "sheet_desc_stats"
        /\ \A c \in NumericColumns :
               (Len(df) > 0 /\ NullCount(df, c) = Len(df)) =>
                   \E r \in Range(DescRows) :
                       /\ r.feature = c
                       /\ r.count = Num(0)
                       /\ r.null_count = Num(Len(df))
                       /\ r.null_pct = Num(10000)
                       /\ StatisticsUndefined(r)

\* C22 witness: the sheet of a dataset with an entirely null numeric column
\* and a numeric column without nulls.
AllNullColumnSeen ==
    /\ HasSheet(wb, "4_Descriptive_Stats")
    /\ Len(df) > 1
    /\ \E c, e \in NumericColumns :
           /\ NullCount(df, c) = Len(df) /\ NullCount(df, e) = 0
           /\ \E r \in Range(DescRows) : r.feature = c /\ r.count = Num(0)

\* The blocks of the fraud type sheet.
FraudBlocks == Tables("10_Fraud_Type_Analysis").blocks

\* The mean of the column c over the baseline records of d is zero, or
\* there is no baseline value.
BaselineZeroOrEmpty(d, c) ==
    \A i \in 1..Len(d) :
        (d[i].fraud_type = "normal" /\ ~IsNull(d[i], c)) => d[i][c] = 0

\* The column whose means a ratio metric divides.
RatioColumn(metric) ==
    IF metric = "Average Amount" THEN "amount" ELSE "devices_per_account"

\* C23: in every block of the fraud type sheet, the ratio cell of a metric
\* whose baseline mean is zero or has no value is empty.
ZeroBaselineRatioOmitted ==
    HasSheet(wb, "10_Fraud_Type_Analysis") =>
        \A b \in Range(FraudBlocks) :
            \A m \in Range(b.metrics) :
                (/\ m.metric \in {"Average Amount", "Avg devices_per_account"}
                 /\ BaselineZeroOrEmpty(df, RatioColumn(m.metric))) =>
                    m.ratio = Blank

\* C23 witness: a block with a ratio metric whose baseline mean is zero,
\* its ratio cell holding inf or nan.
ZeroBaselineSeen ==
    /\ HasSheet(wb, "10_Fraud_Type_Analysis")
    /\ \E b \in Range(FraudBlocks) :
           \E m \in Range(b.metrics) :
               /\ m.metric \in {"Average Amount", "Avg devices_per_account"}
               /\ BaselineZeroOrEmpty(df, RatioColumn(m.metric))
               /\ NotDefined(m.ratio)

\* The records of d of the fraud type ft on which the rule c is triggered:
\* the mean trigger rates of two rules within ft compare as these counts.
TriggeredIn(d, ft, c) ==
    Cardinality({i \in 1..Len(d) : d[i].fraud_type = ft /\ d[i][c] = 1})

\* The rule a comes before the rule b in the ranking of the fraud type ft:
\* a higher rate, or the same rate and an earlier column.
RanksBefore(d, ft, a, b) ==
    \/ TriggeredIn(d, ft, a) > TriggeredIn(d, ft, b)
    \/ /\ TriggeredIn(d, ft, a) = TriggeredIn(d, ft, b)
       /\ ColumnIndex(a) < ColumnIndex(b)

\* C24: every written block of the fraud type sheet lists at most 5 rules,
\* in descending order of their trigger rate within the fraud type, rules
\* of the same rate in the order of their columns, and every rule that is
\* not listed ranks after every listed one.
TopRulesRanked ==
    HasSheet(wb, "10_Fraud_Type_Analysis") =>
        \A b \in Range(FraudBlocks) :
            b.metrics # <<>> =>
                /\ Len(b.top_rules) <= TopRulesCount
                /\ Len(b.top_rules) = IF Len(rule_cols) < TopRulesCount
                                      THEN Len(rule_cols) ELSE TopRulesCount
                /\ \A i, j \in 1..Len(b.top_rules) :
                       i < j => RanksBefore(df, b.fraud_type,
                                            b.top_rules[i].rule, b.top_rules[j].rule)
                /\ \A r \in Range(b.top_rules) :
                       \A c \in Range(rule_cols) \ {t.rule : t \in Range(b.top_rules)} :
                           RanksBefore(df, b.fraud_type, r.rule, c)

\* C24 witness: a written block of 5 rules that leaves out a rule of the
\* same rate as a listed rule of a later column.
TopRulesTieExchanged ==
    /\ HasSheet(wb, "10_Fraud_Type_Analysis")
    /\ \E b \in Range(FraudBlocks) :
           /\ Len(b.top_rules) = TopRulesCount
           /\ \E r \in Range(b.top_rules) :
                  \E c \in Range(rule_cols) \ {t.rule : t \in Range(b.top_rules)} :
                      /\ TriggeredIn(df, b.fraud_type, r.rule) = TriggeredIn(df, b.fraud_type, c)
                      /\ ColumnIndex(c) < ColumnIndex(r.rule)

\* The rows of the data dictionary sheet.
DictRows == Tables("2_Data_Dictionary").rows

\* C25: sheet_data_dict does not raise and writes exactly one row per
\* column of the dataset, in the order of the columns; the row of a column
\* of the catalog has the catalog's data type, group and texts, and the row
\* of any other column has the data type of the column's values, the group
\* "Other" and empty texts.
DictionaryRowPerColumn ==
    HasSheet(wb, "2_Data_Dictionary") =>
        /\ exc # "sheet_data_dict"
        /\ Len(DictRows) = Len(Columns)
        /\ \A i \in 1..Len(DictRows) :
               /\ DictRows[i].column = Columns[i]
               /\ Columns[i] \in DOMAIN DATA_DICT =>
                      /\ DictRows[i].catalogued
                      /\ DictRows[i].dtype = DATA_DICT[Columns[i]][1]
                      /\ DictRows[i].group = DATA_DICT[Columns[i]][2]
               /\ Columns[i] \notin DOMAIN DATA_DICT =>
                      /\ ~DictRows[i].catalogued
                      /\ DictRows[i].dtype = Dtype(Columns[i])
                      /\ DictRows[i].group = "Other"

\* C25 witness: a dictionary with a row of a column of the catalog and a
\* row of a column that the catalog does not have, on a dataset with records.
UncataloguedColumnSeen ==
    /\ HasSheet(wb, "2_Data_Dictionary")
    /\ Len(df) > 0
    /\ \E r, u \in Range(DictRows) :
           /\ r.catalogued /\ r.group = "Rule Flags"
           /\ ~u.catalogued /\ u.group = "Other" /\ u.dtype = "int64"

\* The aggregate columns of the rules: trigger count, maximum severity and
\* weighted score.
AggregateColumns == {"rule_trigger_count", "max_rule_severity", "weighted_rule_score"}

\* The columns of the dataset that start with "rule_" and are no aggregate,
\* in the order of the dataset.
RuleColumnsExpected ==
    Filter(Columns, LAMBDA c : c \in RulePrefixed /\ c \notin AggregateColumns)

\* The rules listed in the written blocks of the fraud type sheet.
ListedRules == UNION {{t.rule : t \in Range(b.top_rules)} : b \in Range(FraudBlocks)}

\* C26: the rule columns of sheet_rules and of sheet_fraud_types are both
\* the columns of the dataset that start with "rule_" without the
\* aggregate columns, in the order of the dataset; the rule table has a row
\* for each of them and for no other column, and the blocks of the fraud
\* types list only columns of them.
RuleColumnsAgree ==
    /\ rule_cols = RuleColumnsExpected
    /\ rule_cols_fraud_types = RuleColumnsExpected
    /\ HasSheet(wb, "8_Rule_Features") =>
           /\ Len(Tables("8_Rule_Features").rules) = Len(RuleColumnsExpected)
           /\ {r.rule : r \in Range(Tables("8_Rule_Features").rules)}
                  = Range(RuleColumnsExpected)
    /\ HasSheet(wb, "10_Fraud_Type_Analysis") =>
           /\ ListedRules \subseteq Range(RuleColumnsExpected)
           /\ ListedRules \cap AggregateColumns = {}

\* C26 witness: the rule table and written blocks of a dataset with the
\* three aggregate columns, every rule of the table listed in some block.
RulesInBothSheets ==
    /\ HasSheet(wb, "8_Rule_Features") /\ HasSheet(wb, "10_Fraud_Type_Analysis")
    /\ AggregateColumns \subseteq Range(Columns)
    /\ ListedRules = {r.rule : r \in Range(Tables("8_Rule_Features").rules)}

\* C27: the report file is written only by the save step after all eleven
\* sheet functions have returned, it then holds the eleven sheets, it is
\* written at most once in a run, and nothing is written in a run in which
\* a sheet function has raised.
SavedOnlyAfterAllSections ==
    /\ [](file # <<>> =>
            /\ pc = "done" /\ exc = ""
            /\ file = wb
            /\ TitlesOf(file) = CanonicalTitles)
    /\ [](exc # "" => file = <<>> /\ pc # "save")
    /\ [][file' # file => (pc = "save" /\ file = <<>> /\ Len(wb) = Len(MainOrder))]_vars

\* C27 witness: the report of a dataset with records has been saved, with
\* the overview first and the correlations last.
ElevenSheetsSaved ==
    /\ pc = "done" /\ Len(df) > 0
    /\ Len(file) = Len(MainOrder)
    /\ file[1].title = "1_Overview" /\ file[Len(file)].title = "11_Top_Correlations"

\* The group the data dictionary shows for the column c.
DictGroupOf(c) == (CHOOSE r \in Range(DictRows) : r.column = c).group

\* C28: the group of every column in the missing values table and in the
\* correlations table is the group the data dictionary shows for it.
GroupsAgreeAcrossTables ==
    /\ (HasSheet(wb, "2_Data_Dictionary") /\ HasSheet(wb, "5_Missing_Values")) =>
           \A m \in Range(Tables("5_Missing_Values").rows) :
               m.group = DictGroupOf(m.column)
    /\ (HasSheet(wb, "2_Data_Dictionary") /\ HasSheet(wb, "11_Top_Correlations")) =>
           \A k \in Range(CorrelationRows) :
               k.group = DictGroupOf(k.feature)

\* C28 witness: the three tables of one run, with a column of the catalog
\* that has the same group in all of them and a column shown as "Other" in
\* the dictionary and without a group in the two others.
GroupsDifferSeen ==
    /\ HasSheet(wb, "2_Data_Dictionary") /\ HasSheet(wb, "5_Missing_Values")
    /\ HasSheet(wb, "11_Top_Correlations")
    /\ \E m, n \in Range(Tables("5_Missing_Values").rows) :
           \E k, l \in Range(CorrelationRows) :
               /\ m.column = k.feature /\ m.column \in DOMAIN DATA_DICT
               /\ m.group = DictGroupOf(m.column) /\ k.group = m.group
               /\ n.column = l.feature /\ n.column \notin DOMAIN DATA_DICT
               /\ DictGroupOf(n.column) = "Other" /\ n.group = "" /\ l.group = ""

\* C29: the row of a rule that is triggered on no record has the trigger
\* count 0, the fraud rate when triggered 0 and the strength "Low"; its
\* lift is 0 when there is a fraud record (the fraud rate of the records
\* not triggered is then positive) and the sentinel otherwise.
UntriggeredRuleRow ==
    HasSheet(wb, "8_Rule_Features") =>
        \A c \in Range(RuleColumnsExpected) :
            CountRows(df, c, 1) = 0 =>
                \E r \in Range(Tables("8_Rule_Features").rules) :
                    /\ r.rule = c
                    /\ r.cnt = Num(0)
                    /\ r.ft = Num(0)
                    /\ r.strength = "Low"
                    /\ r.lift = IF CountFraud(df, c, 0) > 0 THEN Num(0) ELSE Str("N/A")

\* C29 witness: a rule table of a dataset with fraud records and legitimate
\* records, with a rule triggered on no record and a rule triggered on a
\* fraud record.
UntriggeredRuleSeen ==
    /\ HasSheet(wb, "8_Rule_Features")
    /\ CountLabel(df, 1) > 0 /\ CountLabel(df, 0) > 0
    /\ \E r, s \in Range(Tables("8_Rule_Features").rules) :
           /\ CountRows(df, r.rule, 1) = 0 /\ r.lift = Num(0)
           /\ CountFraud(df, s.rule, 1) > 0

\* The tables of the categorical distributions sheet.
CategoricalTables == Tables("7_Categorical_Distributions").tables

\* The place of a column in the fixed list of sheet_categoricals.
ListIndex(c) == CHOOSE i \in 1..Len(cat_cols) : cat_cols[i] = c

\* C30: sheet_categoricals does not raise when columns of its list are not
\* in the dataset: it writes one table for every listed column that the
\* dataset has, none for any other, in the order of the list.
AbsentCategoricalsSkipped ==
    HasSheet(wb, "7_Categorical_Distributions") =>
        /\ exc # "sheet_categoricals"
        /\ \A c \in Range(cat_cols) :
               Cardinality({i \in 1..Len(CategoricalTables) : CategoricalTables[i].column = c})
                   = IF c \in Range(Columns) THEN 1 ELSE 0
        /\ \A t \in Range(CategoricalTables) : t.column \in Range(cat_cols)
        /\ \A i, j \in 1..Len(CategoricalTables) :
               i < j => ListIndex(CategoricalTables[i].column)
                            < ListIndex(CategoricalTables[j].column)

\* C30 witness: the sheet of a dataset with records that lacks listed
\* columns between and after the listed columns it has, whose tables are in
\* the order of the list and not of the dataset.
AbsentCategoricalSeen ==
    /\ HasSheet(wb, "7_Categorical_Distributions")
    /\ Len(df) > 0
    /\ Len(CategoricalTables) = 2
    /\ "kyc_level" \notin Range(Columns) /\ "debit_credit" \notin Range(Columns)
    /\ ColumnIndex(CategoricalTables[1].column) > ColumnIndex(CategoricalTables[2].column)
    /\ \A t \in Range(CategoricalTables) : Len(t.rows) > 0

====
